---- MODULE Spec2Model ----
(***************************************************************************)
(* Cassis web server for Calibre: the controller (src/cassis/index.js).    *)
(* The model covers the pagination calculator, the list and book-detail    *)
(* handlers with their Catalog Store calls, the search-string tokenizer    *)
(* and the thumbnail cache of the cover handlers.                          *)
(***************************************************************************)
EXTENDS Integers, Sequences, FiniteSets, TLC

VARIABLES
    pc,          \* position of the sequential handler of the running specification
    page,        \* getPageNavigation: the requested page
    count,       \* getPageNavigation: the total count
    pageNav,     \* getPageNavigation: the returned object
    request,     \* the list / book request being handled (body, route)
    storeLog,    \* the Catalog Store calls of the request, in call order
    response,    \* what the request was answered with, in order
    errorLog,    \* errorHandler invocations of the request (action names)
    uncaught,    \* the exception that left the request's callback uncaught ("" if none)
    searchInput, \* tokenizer: the search string
    tokens,      \* tokenizer: searchStringToArray(searchInput)
    retokens,    \* tokenizer: searchStringToArray(tokens.join(" "))
    cache,       \* thumbnail cache: path -> "absent" | "partial" | "complete"
    cover,       \* the cover / file request of each connection
    tally,       \* per cache path: requests accepted, resizes started, files opened,
                 \* writes completed and resizes failed so far
    started,     \* number of cover / file requests accepted so far
    overlapped   \* per cache path: whether two requests for it were ever in flight together

vars == <<pc, page, count, pageNav, request, storeLog, response, errorLog, uncaught,
          searchInput, tokens, retokens, cache, cover, tally, started, overlapped>>

pageVars == <<page, count, pageNav>>
reqVars == <<request, storeLog, response, errorLog, uncaught>>
tokVars == <<searchInput, tokens, retokens>>
coverVars == <<cache, cover, tally, started, overlapped>>

(***************************************************************************)
(* Bounds of the model.                                                    *)
(***************************************************************************)
MaxCount == 95      \* largest total count handed to getPageNavigation
MaxPage == 11       \* largest requested page handed to getPageNavigation
MaxNegPage == 2     \* requested pages go down to -MaxNegPage
MaxLen == 4         \* longest search string handed to the tokenizer
MaxRequests == 3    \* cover / file requests accepted in one run

(***************************************************************************)
(* Program constants.                                                      *)
(***************************************************************************)
PAGE_LIMIT == 30

(***************************************************************************)
(* JavaScript values.  A value is a record [t, v]: t its type tag and v    *)
(* the integer it carries (0 where it carries none).                       *)
(***************************************************************************)
Num(n) == [t |-> "num", v |-> n]
NaN == [t |-> "nan", v |-> 0]
Undefined == [t |-> "undef", v |-> 0]
Null == [t |-> "null", v |-> 0]
\* the string holding the decimal digits of the integer n, such as "5" or "-1"
NumStr(n) == [t |-> "numstr", v |-> n]
\* a string that is not a number, such as "abc"
Str == [t |-> "str", v |-> 0]
\* the boolean true
True == [t |-> "bool", v |-> 1]

\* ToNumber, as applied by isNaN and by the relational operators
ToNumber(x) ==
    CASE x.t \in {"num", "numstr", "bool"} -> Num(x.v)
      [] x.t = "null" -> Num(0)
      [] OTHER -> NaN

\* isNaN(x)
IsNaN(x) == ToNumber(x).t = "nan"

\* the truthiness of x, as in !x and in x && ...
Truthy(x) ==
    CASE x.t = "num" -> x.v # 0
      [] x.t \in {"numstr", "str", "bool"} -> TRUE
      [] OTHER -> FALSE

\* parseInt(x, 10): the argument is converted to a string first
ParseInt(x) == IF x.t \in {"num", "numstr"} THEN Num(x.v) ELSE NaN

\* a < b, a <= b, a > b: false as soon as one side is NaN
Lt(a, b) == LET x == ToNumber(a) y == ToNumber(b)
            IN x.t = "num" /\ y.t = "num" /\ x.v < y.v
Le(a, b) == LET x == ToNumber(a) y == ToNumber(b)
            IN x.t = "num" /\ y.t = "num" /\ x.v <= y.v
Gt(a, b) == Lt(b, a)

\* a === n and a !== n for a number literal n
StrictEq(a, n) == a.t = "num" /\ a.v = n
StrictNe(a, n) == ~StrictEq(a, n)

\* a + n, a - n, a * n for a number literal n
Plus(a, n) == LET x == ToNumber(a) IN IF x.t = "num" THEN Num(x.v + n) ELSE NaN
Times(a, n) == LET x == ToNumber(a) IN IF x.t = "num" THEN Num(x.v * n) ELSE NaN

\* (!x || isNaN(x)) ? 0 : parseInt(x, 10)
ToInt(x) == IF ~Truthy(x) \/ IsNaN(x) THEN Num(0) ELSE ParseInt(x)

(***************************************************************************)
(* Pagination calculator.                                                  *)
(***************************************************************************)
Enabled(value) == [value |-> <<value>>, class |-> ""]
Disabled == [value |-> <<>>, class |-> "disabled"]

\* a lastpage computed with floor instead of ceil
LastPageFloor(c) ==
    LET x == ToNumber(c)
    IN IF x.t = "num" THEN Num((x.v \div PAGE_LIMIT) - 1) ELSE NaN

\* Math.ceil(count / PAGE_LIMIT) - 1
LastPageOf(c) ==
    LET x == ToNumber(c)
    IN IF x.t = "num"
       THEN Num(((x.v + PAGE_LIMIT - 1) \div PAGE_LIMIT) - 1)
       ELSE NaN

\* page clamped into [0, lastpage] (lines 87-88)
ClampPage(p, lastpage) ==
    IF Lt(p, Num(0)) THEN Num(0)
    ELSE IF Gt(p, lastpage) THEN lastpage
    ELSE p

getPageNavigation(p, c) ==
    IF Le(c, Num(PAGE_LIMIT))
    THEN [size |-> c]
    ELSE LET lastpage == LastPageOf(c)
             q == ClampPage(p, lastpage)
         IN [size |-> c,
             currentpage |-> [value |-> q],
             firstpage |-> IF Lt(Num(0), q) THEN Enabled(Num(0)) ELSE Disabled,
             prevpage |-> IF Gt(q, Num(0)) THEN Enabled(Plus(q, -1)) ELSE Disabled,
             nextpage |-> IF Lt(q, lastpage) THEN Enabled(Plus(q, 1)) ELSE Disabled,
             lastpage |-> IF Le(q, lastpage) THEN Enabled(lastpage) ELSE Disabled]

(***************************************************************************)
(* Pagination: the function applied to every page and count of the bounds. *)
(***************************************************************************)
NoNav == [size |-> Undefined]

InitReqIdle ==
    /\ request = <<>> /\ storeLog = <<>> /\ response = <<>> /\ errorLog = <<>>
    /\ uncaught = ""
InitTokIdle == searchInput = <<>> /\ tokens = <<>> /\ retokens = <<>>

InitCoverIdle ==
    /\ cache = <<>> /\ cover = <<>> /\ tally = <<>>
    /\ started = 0 /\ overlapped = <<>>

InitOthersPage == InitReqIdle /\ InitTokIdle /\ InitCoverIdle

InitPage ==
    /\ pc = "call"
    /\ page \in {Num(n) : n \in (0 - MaxNegPage)..MaxPage}
    /\ count \in {Num(n) : n \in 0..MaxCount}
    /\ pageNav = NoNav
    /\ InitOthersPage

PageNavigation ==
    /\ pc = "call"
    /\ pageNav' = getPageNavigation(page, count)
    /\ pc' = "returned"
    /\ UNCHANGED <<page, count, reqVars, tokVars, coverVars>>

NextPage == PageNavigation

SpecPage == InitPage /\ [][NextPage]_vars

(***************************************************************************)
(* C2: the specified pagination function.                                  *)
(***************************************************************************)
\* the specified last page: the L with L * pageSize < count <= (L + 1) * pageSize
SpecLastPage(c) == CHOOSE L \in 0..c : L * PAGE_LIMIT < c /\ c <= (L + 1) * PAGE_LIMIT

\* the specified resolved page
SpecResolved(p, L) == IF p < 0 THEN 0 ELSE IF p > L THEN L ELSE p

\* the general part of C2, for the call held in the state
PaginationAgrees ==
    pc = "returned" =>
        IF count.v <= PAGE_LIMIT
        THEN pageNav = [size |-> count]
        ELSE LET L == SpecLastPage(count.v)
                 r == SpecResolved(page.v, L)
             IN /\ DOMAIN pageNav = {"size", "currentpage", "firstpage",
                                      "prevpage", "nextpage", "lastpage"}
                /\ pageNav.size = count
                /\ pageNav.currentpage.value = Num(r)
                /\ 0 <= r /\ r <= L
                \* clamping the clamped page changes nothing
                /\ getPageNavigation(pageNav.currentpage.value, count) = pageNav
                /\ (pageNav.firstpage.class = "") <=> (r > 0)
                /\ (r > 0) => pageNav.firstpage.value = <<Num(0)>>
                /\ (pageNav.prevpage.class = "") <=> (r > 0)
                /\ (r > 0) => pageNav.prevpage.value = <<Num(r - 1)>>
                /\ (pageNav.nextpage.class = "") <=> (r < L)
                /\ (r < L) => pageNav.nextpage.value = <<Num(r + 1)>>
                /\ pageNav.lastpage = [value |-> <<Num(L)>>, class |-> ""]
                /\ \A k \in {"firstpage", "prevpage", "nextpage"} :
                       pageNav[k].class = "disabled" <=> pageNav[k].value = <<>>

\* the example of C2 with the resolved page and last page given as n
PaginationExample(n) ==
    (pc = "returned" /\ count = Num(95) /\ page = Num(10)) =>
        /\ pageNav.currentpage.value = Num(n)
        /\ pageNav.firstpage.class = "" /\ pageNav.prevpage.class = ""
        /\ pageNav.nextpage.class = "disabled"
        /\ pageNav.lastpage = [value |-> <<Num(n)>>, class |-> ""]

\* C2 as stated: getPageNavigation agrees with the specified pagination
\* function, and count = 95, page = 10 resolves to page 2 with last page 2.
C2_AsStated == PaginationAgrees /\ PaginationExample(2)

\* C2 as amended: getPageNavigation agrees with the specified pagination
\* function for every page and count; count = 95, pageSize = 30, page = 10
\* resolves to page 3 = ceil(95 / 30) - 1, first and prev enabled, next
\* disabled, last page 3.
C2_Pagination == PaginationAgrees /\ PaginationExample(3)

\* a page beyond the last one was clamped, and a single page carried no links
C2_Witness ==
    /\ pc = "returned" /\ count = Num(95) /\ page = Num(10)
    /\ pageNav.currentpage.value = Num(3)

(***************************************************************************)
(* Tokenizer.  A string is a sequence of characters; the character with    *)
(* code 172 is written "chr172".                                           *)
(***************************************************************************)
\* the characters of the class of the regular expression whitespace_chars
whitespace_chars ==
    {"/", ",", ".", "|", " ", "*", "?", "!", ":", ";", "(", ")", "[", "]", "&", "\"", "+"}

whitespace_char01 == "chr172"

UpperCase == <<"A", "B", "C", "D", "E", "F", "G", "H", "I", "J", "K", "L", "M",
               "N", "O", "P", "Q", "R", "S", "T", "U", "V", "W", "X", "Y", "Z">>
LowerCase == <<"a", "b", "c", "d", "e", "f", "g", "h", "i", "j", "k", "l", "m",
               "n", "o", "p", "q", "r", "s", "t", "u", "v", "w", "x", "y", "z">>

\* String.prototype.trim over the white space of the alphabet
RECURSIVE TrimLeft(_)
TrimLeft(s) == IF s # <<>> /\ Head(s) = " " THEN TrimLeft(Tail(s)) ELSE s
RECURSIVE TrimRight(_)
TrimRight(s) ==
    IF s # <<>> /\ s[Len(s)] = " " THEN TrimRight(SubSeq(s, 1, Len(s) - 1)) ELSE s
Trim(s) == TrimRight(TrimLeft(s))

\* String.prototype.toLowerCase
LowerChar(c) ==
    IF \E i \in 1..Len(UpperCase) : UpperCase[i] = c
    THEN LowerCase[CHOOSE i \in 1..Len(UpperCase) : UpperCase[i] = c]
    ELSE c
ToLowerCase(s) == [i \in 1..Len(s) |-> LowerChar(s[i])]

\* replaceAll(whitespace_char01, " ")
ReplaceChar01(s) == [i \in 1..Len(s) |-> IF s[i] = whitespace_char01 THEN " " ELSE s[i]]

\* replaceAll(whitespace_chars, " "): every maximal run of the class becomes one space
RECURSIVE ReplaceRuns(_, _)
ReplaceRuns(s, inRun) ==
    IF s = <<>> THEN <<>>
    ELSE IF Head(s) \in whitespace_chars
         THEN (IF inRun THEN <<>> ELSE <<" ">>) \o ReplaceRuns(Tail(s), TRUE)
         ELSE <<Head(s)>> \o ReplaceRuns(Tail(s), FALSE)

\* replaceAll("'", "''")
RECURSIVE DoubleQuotes(_)
DoubleQuotes(s) ==
    IF s = <<>> THEN <<>>
    ELSE (IF Head(s) = "'" THEN <<"'", "'">> ELSE <<Head(s)>>) \o DoubleQuotes(Tail(s))

\* split(" "): the pieces between single spaces, empty pieces kept
RECURSIVE SplitAcc(_, _, _)
SplitAcc(s, cur, acc) ==
    IF s = <<>> THEN Append(acc, cur)
    ELSE IF Head(s) = " "
         THEN SplitAcc(Tail(s), <<>>, Append(acc, cur))
         ELSE SplitAcc(Tail(s), Append(cur, Head(s)), acc)
Split(s) == SplitAcc(s, <<>>, <<>>)

\* Array.prototype.join(" ")
RECURSIVE Join(_)
Join(a) ==
    IF a = <<>> THEN <<>>
    ELSE IF Len(a) = 1 THEN a[1]
    ELSE a[1] \o <<" ">> \o Join(Tail(a))

\* the separator class collapsed before character 172 is replaced
NormalizeSwapped(s) == DoubleQuotes(ReplaceChar01(ReplaceRuns(ToLowerCase(Trim(s)), FALSE)))

\* the string searchStringToArray splits
Normalize(s) == DoubleQuotes(ReplaceRuns(ReplaceChar01(ToLowerCase(Trim(s))), FALSE))

searchStringToArray(s) == Split(Normalize(s))

(***************************************************************************)
(* Tokenizer: the function applied to every string of the bounds, and      *)
(* again to its own output joined with spaces.                             *)
(***************************************************************************)
Alphabet == {"a", "B", " ", ".", "'", whitespace_char01}

InitTok ==
    /\ pc = "tokenize"
    /\ searchInput \in UNION {[1..n -> Alphabet] : n \in 0..MaxLen}
    /\ tokens = <<>> /\ retokens = <<>>
    /\ page = Num(0) /\ count = Num(0) /\ pageNav = NoNav
    /\ InitReqIdle
    /\ InitCoverIdle

Tokenize ==
    /\ pc = "tokenize"
    /\ tokens' = searchStringToArray(searchInput)
    /\ retokens' = searchStringToArray(Join(searchStringToArray(searchInput)))
    /\ pc' = "tokenized"
    /\ UNCHANGED <<searchInput, pageVars, reqVars, coverVars>>

NextTok == Tokenize

SpecTok == InitTok /\ [][NextTok]_vars

(***************************************************************************)
(* C9: tokenization applied to its own output.                             *)
(***************************************************************************)
Separators == whitespace_chars \cup {whitespace_char01}

HasQuote(s) == \E i \in 1..Len(s) : s[i] = "'"

\* the trimmed string neither starts nor ends with a separator character
CleanEnds(s) ==
    LET t == Trim(s)
    IN t = <<>> \/ (t[1] \notin Separators /\ t[Len(t)] \notin Separators)

\* C9 as stated: for every search string over letters, space, separators and
\* the single quote, tokenize(tokenize(s).join(" ")) = tokenize(s).
C9_AsStated == pc = "tokenized" => retokens = tokens

\* C9 as amended: tokenize(tokenize(s).join(" ")) = tokenize(s) for every
\* search string s that holds no single quote and whose trimmed form neither
\* starts nor ends with a separator character (the punctuation / white-space
\* class or character 172).
C9_Idempotent ==
    (pc = "tokenized" /\ ~HasQuote(searchInput) /\ CleanEnds(searchInput))
        => retokens = tokens

\* a string with upper case, a separator run and character 172 between two
\* words was tokenized into its two lower-case words, and again into the same
C9_Witness ==
    /\ pc = "tokenized"
    /\ searchInput = <<"B", ".", whitespace_char01, "a">>
    /\ tokens = <<<<"b">>, <<"a">>>>
    /\ retokens = tokens

(***************************************************************************)
(* Requests of the list and book-detail handlers.  The body is an option   *)
(* bag; an absent string option is written "" (or <<>> for the search      *)
(* string), which the handlers treat like the empty string.                *)
(***************************************************************************)
HarryPotter == <<"H", "a", "r", "r", "y", " ", "P", "o", "t", "t", "e", "r">>
SearchStrings == {HarryPotter}

\* the secondary ids of a body: all absent or malformed, or all given
IdOptions ==
    {[ccId |-> Undefined, serieId |-> Undefined, authorsId |-> True],
     [ccId |-> Num(7), serieId |-> NumStr(4), authorsId |-> Num(9)]}

FilterOptions ==
    {ids @@ o : ids \in IdOptions,
                o \in [type : {"", "serie", "author"},
                       searchString : {<<>>} \cup SearchStrings,
                       sortString : {"", "title"},
                       tagId : {Undefined, Num(-1), Num(5)},
                       ccNum : {Undefined, Str, Num(3)}]}

\* the :type? parameter of the route /list/:type? ("" when the route has none)
RouteTypes == {"", "serie"}

PageOptions == {Undefined, Num(-1), Num(2), Num(10)}
NumOptions == {Undefined, Num(1), Num(3), NumStr(0)}
BookIdOptions == {Undefined, Num(1)}

\* what the Catalog Store can answer: the number of items matching the filter
Matching == {0, 95}
\* how its count operation returns: the number, a value that is no count, or an exception
CountModes == {"ok", "null", "undefined", "NaN", "negative", "throw"}

Thrown == [t |-> "throw", v |-> 0]

CountReturn(n, mode) ==
    CASE mode = "ok" -> Num(n)
      [] mode = "null" -> Null
      [] mode = "undefined" -> Undefined
      [] mode = "NaN" -> NaN
      [] mode = "negative" -> Num(-1)
      [] OTHER -> Thrown

\* an array of consecutive rows of the store's ordering: length rows from row first
Rows(first, length) == [first |-> first, length |-> length]
NoRows == Rows(0, 0)

\* the rows offset .. offset + limit - 1 of the n matching rows
RowsFrom(n, limit, offset) ==
    LET last == IF offset + limit < n THEN offset + limit ELSE n
    IN IF last > offset THEN Rows(offset, last - offset) ELSE NoRows

\* find(..., limit, offset) of the store over n matching rows.  An offset that
\* is negative or no number is outside the store's contract: it either counts
\* as 0 (lenient) or yields no rows.
FindRows(n, limit, offset, lenient) ==
    IF offset.t = "num" /\ offset.v >= 0 THEN RowsFrom(n, limit.v, offset.v)
    ELSE IF lenient THEN RowsFrom(n, limit.v, 0)
    ELSE NoRows

\* one call of the Catalog Store as the log keeps it
Call(kind, op, dim, search, sort, ids, limit, offset, ret) ==
    [kind |-> kind, op |-> op, dim |-> dim, search |-> search, sort |-> sort,
     ids |-> ids, limit |-> limit, offset |-> offset, ret |-> ret]

CountOp(dim) ==
    CASE dim = "serie" -> "countBooksBySerie"
      [] dim = "author" -> "countBooksByAuthor"
      [] dim = "tag" -> "countBooksWithTags"
      [] dim = "cc" -> "countBooksWithCC"
      [] OTHER -> "countBooks"

FindOp(dim) ==
    CASE dim = "serie" -> "findBooksBySerie"
      [] dim = "author" -> "findBooksByAuthor"
      [] dim = "tag" -> "findBooksWithTags"
      [] dim = "cc" -> "findBooksWithCC"
      [] OTHER -> "findBooks"

\* searchStringToArray over the search strings of the requests, computed once
TokensOf == [str \in SearchStrings |-> searchStringToArray(str)]

\* options.searchString ? searchStringToArray(options.searchString) : null
SearchArrayOf(o) ==
    IF o.searchString # <<>>
    THEN [null |-> FALSE, tokens |-> TokensOf[o.searchString]]
    ELSE [null |-> TRUE, tokens |-> <<>>]

\* a query of one filter dimension: the search array if the dimension takes
\* one, and its ids in argument order
Query(dim, search, ids) == [dim |-> dim, search |-> search, ids |-> ids]

\* the dimension chosen under the tag / custom column / search part of the
\* switch, in listAction and again in bookAction
DefaultQuery(o) ==
    LET searchArray == SearchArrayOf(o)
        tagId == ToInt(o.tagId)
        ccNum == ToInt(o.ccNum)
        ccId == ToInt(o.ccId)
    IN IF Truthy(tagId) /\ Gt(tagId, Num(0))
       THEN Query("tag", <<searchArray>>, <<tagId>>)
       ELSE IF Truthy(ccNum) /\ Gt(ccNum, Num(0))
       THEN Query("cc", <<searchArray>>, <<ccNum, ccId>>)
       ELSE IF StrictEq(tagId, 0) /\ StrictEq(ccNum, 0)
       THEN Query("search", <<searchArray>>, <<>>)
       ELSE Query("none", <<>>, <<>>)

\* the switch of listAction: type is options.type || request.params.type
ListQuery(o, paramsType) ==
    LET type == IF o.type # "" THEN o.type ELSE paramsType
    IN CASE type = "serie" -> Query("serie", <<>>, <<ToInt(o.serieId)>>)
         [] type = "author" -> Query("author", <<>>, <<ToInt(o.authorsId)>>)
         [] OTHER -> DefaultQuery(o)

\* whether listAction calls find after count returned c
FindGuard(dim, c) ==
    IF dim = "search" THEN Truthy(c) /\ StrictNe(c, 0) ELSE StrictNe(c, 0)

\* the four batched lookups of addFields, made for a non-empty array only
addFields(books) ==
    IF books.isArray /\ books.rows.length > 0
    THEN [i \in 1..4 |->
            Call("enrich",
                 <<"getAuthorsOfBooks", "getFormatsOfBooks",
                   "getSeriesOfBooks", "getTagsOfBooks">>[i],
                 "", <<>>, "", <<books.rows>>, Undefined, Undefined, Undefined)]
    ELSE <<>>

Message(text) == [kind |-> "message", text |-> text]
Status500 == [kind |-> "500"]

\* what a run of a handler leaves behind
Outcome(log, resp, errors, exception) ==
    [log |-> log, response |-> resp, errors |-> errors, uncaught |-> exception]

\* the 'end' callback of listAction, with the store answering from n matching
\* rows in the given mode, and the view rendering or failing
ListRun(req, n, mode, lenient, renderFails) ==
    IF ~req.bodyOk THEN Outcome(<<>>, <<>>, <<>>, "JSON.parse")
    ELSE
    LET o == req.options
        pg == ToInt(o.page)
        q == ListQuery(o, req.paramsType)
        called == q.dim # "none"
        countCall == Call("count", CountOp(q.dim), q.dim, q.search, "", q.ids,
                          Undefined, Undefined, CountReturn(n, mode))
        c == IF called THEN CountReturn(n, mode) ELSE Num(0)
    IN IF called /\ mode = "throw" THEN Outcome(<<countCall>>, <<>>, <<>>, "count")
       ELSE
       LET finds == called /\ FindGuard(q.dim, c)
           offset == Times(pg, PAGE_LIMIT)
           rows == FindRows(n, Num(PAGE_LIMIT), offset, lenient)
           books == IF finds THEN [isArray |-> TRUE, rows |-> rows]
                    ELSE [isArray |-> FALSE, rows |-> NoRows]
           findCall == Call("find", FindOp(q.dim), q.dim, q.search, o.sortString,
                            q.ids, Num(PAGE_LIMIT), offset, Num(rows.length))
           log == (IF called THEN <<countCall>> ELSE <<>>)
                  \o (IF finds THEN <<findCall>> ELSE <<>>)
       IN IF Le(c, Num(0)) \/ (books.isArray /\ books.rows.length = 0)
          THEN Outcome(log, <<Message(IF StrictEq(c, 0) THEN "none" ELSE "error")>>,
                       <<>>, "")
          ELSE IF renderFails
          THEN Outcome(log \o addFields(books), <<Status500>>,
                       <<"render booklist page">>, "")
          ELSE Outcome(log \o addFields(books),
                       <<[kind |-> "books", books |-> books.rows,
                          pageNav |-> getPageNavigation(pg, c)]>>, <<>>, "")

ListRequests ==
    {[kind |-> "list", bodyOk |-> TRUE, paramsType |-> r, listRoute |-> r,
      options |-> [f \in {"page", "bookId", "num"} |->
                      CASE f = "page" -> pg [] OTHER -> Undefined] @@ o] :
        r \in RouteTypes, o \in FilterOptions, pg \in PageOptions}

\* a body that is not JSON
Malformed(kind) ==
    [kind |-> kind, bodyOk |-> FALSE, paramsType |-> "", listRoute |-> "",
     options |-> [f \in {"page", "bookId", "num"} |-> Undefined]
                 @@ [type |-> "", searchString |-> <<>>, sortString |-> "",
                     tagId |-> Undefined, ccNum |-> Undefined, ccId |-> Undefined,
                     serieId |-> Undefined, authorsId |-> Undefined]]

\* the switch of bookAction: type is options.type
BookQuery(o) ==
    CASE o.type = "serie" -> Query("serie", <<>>, <<ToInt(o.serieId)>>)
      [] o.type = "author" -> Query("author", <<>>, <<ToInt(o.authorsId)>>)
      [] OTHER -> DefaultQuery(o)

\* somearray[0]: the first row of the array, <<>> standing for undefined
FirstOf(rows) == IF rows.length > 0 THEN <<rows.first>> ELSE <<>>

\* one of the single lookups bookAction makes for its book id
Lookup(op, bookId) == Call("enrich", op, "", <<>>, "", <<bookId>>, Undefined, Undefined, Undefined)

\* the 'end' callback of bookAction, with the store answering from n matching
\* rows, getBook finding the book or not, and the view rendering or failing
BookRun(req, n, lenient, bookFound, renderFails) ==
    IF ~req.bodyOk THEN Outcome(<<>>, <<>>, <<>>, "JSON.parse")
    ELSE
    LET o == req.options
        bookId == ParseInt(o.bookId)
        getBook == Call("get", "getBook", "", <<>>, "", <<bookId>>, Undefined, Undefined,
                        IF bookFound THEN Num(1) ELSE Undefined)
        navigates == o.bookId # Undefined /\ Truthy(o.num)
        rowNum == Plus(ParseInt(o.num), -1)
        q == BookQuery(o)
        FindAt(offset) ==
            Call("find", FindOp(q.dim), q.dim, q.search, o.sortString, q.ids, Num(1),
                 offset, Num(FindRows(n, Num(1), offset, lenient).length))
        prevRows == IF StrictEq(rowNum, 0) THEN NoRows
                    ELSE FindRows(n, Num(1), Plus(rowNum, -1), lenient)
        nextRows == FindRows(n, Num(1), Plus(rowNum, 1), lenient)
        finds == IF ~navigates \/ q.dim = "none" THEN <<>>
                 ELSE (IF StrictEq(rowNum, 0) THEN <<>> ELSE <<FindAt(Plus(rowNum, -1))>>)
                      \o <<FindAt(Plus(rowNum, 1))>>
        prevBook == IF navigates THEN FirstOf(prevRows) ELSE <<>>
        nextBook == IF navigates THEN FirstOf(nextRows) ELSE <<>>
        log == <<getBook>> \o finds
    IN IF navigates /\ q.dim = "none"
       THEN Outcome(log, <<>>, <<>>, "nextBookArray[0]")
       ELSE IF ~bookFound
       THEN Outcome(log \o <<Lookup("getFormatsOfBooks", bookId)>>, <<>>, <<>>,
                    "book.formats")
       ELSE
       LET lookups == [i \in 1..5 |->
                         Lookup(<<"getFormatsOfBooks", "getAuthorsOfBooks",
                                  "getPublisherOfBooks", "getTagsOfBooks",
                                  "getSeriesOfBooks">>[i], bookId)]
       IN IF renderFails
          THEN Outcome(log \o lookups, <<Status500>>, <<"render book page">>, "")
          ELSE Outcome(log \o lookups,
                       <<[kind |-> "book", prevBook |-> prevBook, nextBook |-> nextBook]>>,
                       <<>>, "")

\* the book-detail requests for an item of the listing of request req: the
\* same filter options, the book's id and its 1-based row number
BookRequestsOf(req) ==
    {[kind |-> "book", bodyOk |-> TRUE, paramsType |-> "", listRoute |-> req.listRoute,
      options |-> [f \in {"page", "bookId", "num"} |->
                      CASE f = "bookId" -> b [] f = "num" -> k [] OTHER -> Undefined]
                  @@ req.options] :
        b \in BookIdOptions, k \in NumOptions}

InitCatalog ==
    /\ pc = "idle"
    /\ InitReqIdle
    /\ page = Num(0) /\ count = Num(0) /\ pageNav = NoNav
    /\ InitTokIdle
    /\ InitCoverIdle

\* POST /list/:type? arrives: listAction registers its callbacks
ArriveList ==
    /\ pc = "idle"
    /\ request' \in ListRequests \cup {Malformed("list")}
    /\ pc' = "list"
    /\ UNCHANGED <<storeLog, response, errorLog, uncaught, pageVars, tokVars, coverVars>>

\* the body has ended: the 'end' callback of listAction runs
listAction ==
    /\ pc = "list"
    /\ \E n \in Matching, mode \in CountModes, lenient \in BOOLEAN, renderFails \in BOOLEAN :
          LET r == ListRun(request, n, mode, lenient, renderFails)
          IN /\ storeLog' = r.log
             /\ response' = r.response
             /\ errorLog' = r.errors
             /\ uncaught' = r.uncaught
    /\ pc' = "listed"
    /\ UNCHANGED <<request, pageVars, tokVars, coverVars>>

\* the request's objects are dropped; the next request finds none of them
Discard ==
    /\ pc \in {"listed", "booked"}
    /\ pc' = "idle"
    /\ request' = <<>> /\ storeLog' = <<>> /\ response' = <<>> /\ errorLog' = <<>>
    /\ uncaught' = ""
    /\ UNCHANGED <<pageVars, tokVars, coverVars>>

\* POST /book arrives for an item of the listing: bookAction registers its callbacks
ArriveBook ==
    /\ pc = "listed"
    /\ request.bodyOk
    /\ request' \in BookRequestsOf(request) \cup {Malformed("book")}
    /\ storeLog' = <<>> /\ response' = <<>> /\ errorLog' = <<>> /\ uncaught' = ""
    /\ pc' = "book"
    /\ UNCHANGED <<pageVars, tokVars, coverVars>>

\* the body has ended: the 'end' callback of bookAction runs
bookAction ==
    /\ pc = "book"
    /\ \E n \in Matching, lenient \in BOOLEAN, bookFound \in BOOLEAN, renderFails \in BOOLEAN :
          LET r == BookRun(request, n, lenient, bookFound, renderFails)
          IN /\ storeLog' = r.log
             /\ response' = r.response
             /\ errorLog' = r.errors
             /\ uncaught' = r.uncaught
    /\ pc' = "booked"
    /\ UNCHANGED <<request, pageVars, tokVars, coverVars>>

NextCatalog == ArriveList \/ listAction \/ ArriveBook \/ bookAction \/ Discard

SpecCatalog == InitCatalog /\ [][NextCatalog]_vars

(***************************************************************************)
(* C1, C3, C4: the list request.                                           *)
(***************************************************************************)
IsCount(e) == e.kind = "count"
IsFind(e) == e.kind = "find"
Counts == SelectSeq(storeLog, IsCount)
Finds == SelectSeq(storeLog, IsFind)

Dimensions == {"serie", "author", "tag", "cc", "search"}

\* a supplied value that is a number above 0
Positive(x) == x.t \in {"num", "numstr"} /\ x.v > 0

\* the dimension the stated precedence selects for a list request
StatedDimension(req) ==
    LET type == IF req.options.type # "" THEN req.options.type ELSE req.paramsType
    IN CASE type = "serie" -> "serie"
         [] type = "author" -> "author"
         [] Positive(req.options.tagId) /\ type \notin {"serie", "author"} -> "tag"
         [] OTHER -> IF Positive(req.options.ccNum) THEN "cc" ELSE "search"

ListHandled == pc = "listed" /\ request.kind = "list" /\ request.bodyOk

\* C1 as stated: every list request invokes exactly one count operation, that
\* of the dimension chosen by the precedence serie, author, tagId > 0,
\* ccNum > 0, and for every remaining tagId / ccNum (absent, non-numeric or
\* negative) the plain countBooks; any find belongs to the same dimension.
C1_AsStated ==
    ListHandled =>
        /\ Len(Counts) = 1
        /\ Counts[1].op = CountOp(StatedDimension(request))
        /\ \A i \in 1..Len(Finds) : Finds[i].op = FindOp(StatedDimension(request))

\* a list request with a negative tagId was answered without any count operation
C1_Witness ==
    /\ ListHandled
    /\ request.options.tagId = Num(-1) /\ request.options.type = ""
    /\ request.paramsType = ""
    /\ storeLog = <<>>
    /\ response = <<Message("none")>>

\* what the count query of the request came to: the value it returned, Thrown
\* if it raised, and the initial 0 of the handler if none was made
CountOutcome == IF Len(Counts) > 0 THEN Counts[1].ret ELSE Num(0)

\* C3 as stated: the answer of a list request is classified by the count alone:
\* 'no results' exactly when the count is 0, 'access error' exactly when the
\* count query failed or returned null, undefined or NaN, and for every count
\* above 0 and every requested page the page of books with its pageNav.
C3_AsStated ==
    (ListHandled /\ CountOutcome # Num(-1) /\ errorLog = <<>>) =>
        /\ response = <<Message("none")>> <=> CountOutcome = Num(0)
        /\ response = <<Message("error")>>
              <=> CountOutcome \in {Thrown, Null, Undefined, NaN}
        /\ (CountOutcome.t = "num" /\ CountOutcome.v > 0)
              => (Len(response) = 1 /\ response[1].kind = "books")

\* a count of 95 with page 10 requested was answered with the access error
C3_Witness ==
    /\ ListHandled
    /\ CountOutcome = Num(95) /\ request.options.page = Num(10)
    /\ response = <<Message("error")>>

\* C4 as stated: in a list request a find is issued at most once per
\* dimension, only after the count of that dimension returned, and never
\* when that count did not yield a positive number; the enricher lookups are
\* issued only after a find returned a non-empty page.
C4_AsStated ==
    ListHandled =>
        /\ \A d \in Dimensions :
              Cardinality({i \in 1..Len(storeLog) :
                              storeLog[i].kind = "find" /\ storeLog[i].dim = d}) <= 1
        /\ \A i \in 1..Len(storeLog) :
              storeLog[i].kind = "find" =>
                  \E j \in 1..(i - 1) :
                      /\ storeLog[j].kind = "count" /\ storeLog[j].dim = storeLog[i].dim
                      /\ storeLog[j].ret.t = "num" /\ storeLog[j].ret.v > 0
        /\ \A i \in 1..Len(storeLog) :
              storeLog[i].kind = "enrich" =>
                  \E j \in 1..(i - 1) :
                      storeLog[j].kind = "find" /\ storeLog[j].ret.v > 0

\* a count that returned null was followed by a find of the same dimension
C4_Witness ==
    /\ ListHandled
    /\ Len(storeLog) >= 2
    /\ storeLog[1].kind = "count" /\ storeLog[1].ret = Null
    /\ storeLog[2].kind = "find" /\ storeLog[2].dim = storeLog[1].dim

(***************************************************************************)
(* C5, C6: the book-detail request.                                        *)
(***************************************************************************)
BookHandled == pc = "booked" /\ request.kind = "book" /\ request.bodyOk

\* the navigator runs: a book id and a row number were supplied
Navigates == request.options.bookId # Undefined /\ Truthy(request.options.num)

\* the supplied 1-based row number less one
RowNum == request.options.num.v - 1

IsNegative(x) == x.t = "num" /\ x.v < 0

\* C5 as stated: under every filter dimension, row number 1 issues no previous
\* find and gives no prevBook, a later row issues exactly one previous find
\* with limit 1 at offset rowNum - 1, exactly one next find with limit 1 at
\* offset rowNum + 1 is always issued, nextBook is none when it returns no
\* row, and no find is ever issued with a negative offset.
C5_AsStated ==
    (BookHandled /\ Navigates /\ BookQuery(request.options).dim \in Dimensions) =>
        /\ \A i \in 1..Len(Finds) : Finds[i].limit = Num(1) /\ ~IsNegative(Finds[i].offset)
        /\ RowNum = 0 =>
              /\ Len(Finds) = 1 /\ Finds[1].offset = Num(1)
              /\ \A i \in 1..Len(response) :
                    response[i].kind = "book" => response[i].prevBook = <<>>
        /\ RowNum >= 1 =>
              /\ Len(Finds) = 2
              /\ Finds[1].offset = Num(RowNum - 1) /\ Finds[2].offset = Num(RowNum + 1)
        /\ \A i \in 1..Len(response) :
              (response[i].kind = "book" /\ Finds[Len(Finds)].ret = Num(0))
                  => response[i].nextBook = <<>>

\* a book request with row number "0" issued its previous find at offset -2
C5_Witness ==
    /\ BookHandled /\ Navigates
    /\ request.options.num = NumStr(0)
    /\ Len(Finds) = 2 /\ Finds[1].offset = Num(-2) /\ Finds[2].offset = Num(0)

\* C6 as stated: for every option bag the navigator issues its finds against
\* the dimension, with the filter arguments and the sortString, that
\* listAction uses for the bag, and it yields a previous and a next without
\* failing whenever listAction selects a dimension.
C6_AsStated ==
    (BookHandled /\ Navigates) =>
        LET listed == ListQuery(request.options, request.listRoute)
        IN /\ \A i \in 1..Len(Finds) :
                 /\ Finds[i].op = FindOp(listed.dim) /\ Finds[i].dim = listed.dim
                 /\ Finds[i].search = listed.search /\ Finds[i].ids = listed.ids
                 /\ Finds[i].sort = request.options.sortString
           /\ listed.dim \in Dimensions =>
                 (Len(Finds) >= 1 /\ uncaught # "nextBookArray[0]")

\* an item listed by series under the route /list/serie had its neighbours
\* looked up by the plain search
C6_Witness ==
    /\ BookHandled /\ Navigates
    /\ request.listRoute = "serie" /\ request.options.type = ""
    /\ ListQuery(request.options, request.listRoute).dim = "serie"
    /\ Len(Finds) >= 1 /\ Finds[1].op = "findBooks"

(***************************************************************************)
(* Thumbnail cache and file delivery.                                      *)
(***************************************************************************)
Digits == <<"0", "1", "2", "3", "4", "5", "6", "7", "8", "9">>

\* the decimal string of a number that is not negative
RECURSIVE DecimalString(_)
DecimalString(n) ==
    IF n < 10 THEN <<Digits[n + 1]>>
    ELSE DecimalString(n \div 10) \o <<Digits[(n % 10) + 1]>>

\* s.slice(-5)
SliceLast5(str) == IF Len(str) > 5 THEN SubSeq(str, Len(str) - 4, Len(str)) ELSE str

\* s.substring(0, 2)
Substring02(str) == SubSeq(str, 1, 2)

\* the leading character of the cache directory of a profile
LeadingDigit(profile) == IF profile = "list" THEN "1" ELSE "0"

\* a directory name that is the shard alone, without the profile's digit
TargetDirShardOnly(profile, bookId) ==
    Substring02(SliceLast5(<<"0", "0", "0", "0">> \o DecimalString(bookId)))

\* the directory under IMGCACHE: "1" or "0" + ("0000" + bookId).slice(-5).substring(0, 2)
TargetDir(profile, bookId) ==
    <<LeadingDigit(profile)>>
        \o Substring02(SliceLast5(<<"0", "0", "0", "0">> \o DecimalString(bookId)))

\* bookId + ".jpg"
TargetFile(bookId) == DecimalString(bookId) \o <<".", "j", "p", "g">>

TargetPath(profile, bookId) ==
    [dir |-> TargetDir(profile, bookId), file |-> TargetFile(bookId)]

BookIds == {42, 123456}
FileIds == {42}
Profiles == {"list", "detail"}
Connections == {1, 2}

CachePaths == {TargetPath(p, id) : p \in Profiles, id \in BookIds}

NoPath == [dir |-> <<>>, file |-> <<>>]

ProfileOf(kind) == IF kind = "coverList" THEN "list" ELSE "detail"

Free == [pc |-> "free", kind |-> "", id |-> 0, path |-> NoPath, nth |-> 0,
         exists |-> FALSE, resizes |-> 0, response |-> <<>>, errors |-> <<>>,
         failed |-> ""]

\* failures counts the steps of requests for the path that failed
NoTally == [requests |-> 0, resizes |-> 0, opens |-> 0, writes |-> 0, failures |-> 0]

InitCover ==
    /\ pc = "serving"
    /\ cache = [p \in CachePaths |-> "absent"]
    /\ cover = [c \in Connections |-> Free]
    /\ tally = [p \in CachePaths |-> NoTally]
    /\ started = 0
    /\ overlapped = [p \in CachePaths |-> FALSE]
    /\ page = Num(0) /\ count = Num(0) /\ pageNav = NoNav
    /\ InitReqIdle
    /\ InitTokIdle

\* the connections other than c whose request for path p is still in flight
InFlight(c, p) ==
    {d \in Connections \ {c} : cover[d].path = p /\ cover[d].pc \notin {"free", "done"}}

\* errorHandler(error, response, actionName): a 500 status and the end of the response
errorHandler(r, actionName, step) ==
    [r EXCEPT !.pc = "done", !.errors = Append(@, actionName),
              !.response = Append(@, Status500), !.failed = step]

\* the requests that arrive: a cover of either profile for a book, or a file
Arrivals ==
    {<<kind, id>> : kind \in {"coverList", "coverBook"}, id \in BookIds}
        \cup {<<"file", id>> : id \in FileIds}

\* a request arrives on a free connection
Accept(c) ==
    /\ cover[c].pc = "free"
    /\ started < MaxRequests
    /\ \E arrival \in Arrivals :
          LET kind == arrival[1]
              id == arrival[2]
              p == IF kind = "file" THEN NoPath ELSE TargetPath(ProfileOf(kind), id)
          IN /\ cover' = [cover EXCEPT ![c] =
                    [Free EXCEPT !.pc = "arrived", !.kind = kind, !.id = id, !.path = p,
                                 !.nth = IF kind = "file" THEN 0 ELSE tally[p].requests + 1]]
             /\ tally' = IF kind = "file" THEN tally
                         ELSE [tally EXCEPT ![p].requests = @ + 1]
             /\ overlapped' = IF kind # "file" /\ InFlight(c, p) # {}
                              THEN [overlapped EXCEPT ![p] = TRUE]
                              ELSE overlapped
    /\ started' = started + 1
    /\ UNCHANGED <<pc, cache, pageVars, reqVars, tokVars>>

\* coverListAction up to the call of fs.pathExists in sendResizedCover
coverListAction(c) ==
    /\ cover[c].pc = "arrived" /\ cover[c].kind = "coverList"
    /\ \E found \in BOOLEAN, dirFails \in BOOLEAN :
          /\ cover' = [cover EXCEPT ![c] =
                      IF ~found THEN [@ EXCEPT !.pc = "done", !.failed = "getCoverData"]
                      ELSE IF dirFails THEN errorHandler(@, "coverListAction", "ensureDirSync")
                      ELSE [@ EXCEPT !.pc = "pathExists"]]
          /\ tally' = IF found /\ ~dirFails THEN tally
                      ELSE [tally EXCEPT ![cover[c].path].failures = @ + 1]
    /\ UNCHANGED <<pc, cache, started, overlapped, pageVars, reqVars, tokVars>>

\* coverBookAction up to the call of fs.pathExists in sendResizedCover
coverBookAction(c) ==
    /\ cover[c].pc = "arrived" /\ cover[c].kind = "coverBook"
    /\ \E found \in BOOLEAN, dirFails \in BOOLEAN :
          /\ cover' = [cover EXCEPT ![c] =
                      IF ~found THEN errorHandler(@, "coverBookAction", "getCoverData")
                      ELSE IF dirFails THEN errorHandler(@, "coverBookAction", "ensureDirSync")
                      ELSE [@ EXCEPT !.pc = "pathExists"]]
          /\ tally' = IF found /\ ~dirFails THEN tally
                      ELSE [tally EXCEPT ![cover[c].path].failures = @ + 1]
    /\ UNCHANGED <<pc, cache, started, overlapped, pageVars, reqVars, tokVars>>

\* a check that never finds the file
FileExistsNever(p) == FALSE

\* fs.pathExists(targetDir + "/" + targetFile): the file is there, written or not
FileExists(p) == cache[p] # "absent"

\* the callback of fs.pathExists: an error is logged; a file that exists is
\* sent; otherwise sharp starts to resize the source into the cache path
pathExistsCallback(c) ==
    /\ cover[c].pc = "pathExists"
    /\ \E error \in BOOLEAN :
          LET p == cover[c].path
          IN IF error
             THEN /\ cover' = [cover EXCEPT ![c].pc = "done", ![c].failed = "pathExists"]
                  /\ tally' = [tally EXCEPT ![p].failures = @ + 1]
             ELSE IF FileExists(p)
             THEN /\ cover' = [cover EXCEPT ![c].pc = "sendFile", ![c].exists = TRUE]
                  /\ UNCHANGED tally
             ELSE /\ cover' = [cover EXCEPT ![c].pc = "resize", ![c].resizes = @ + 1]
                  /\ tally' = [tally EXCEPT ![p].resizes = @ + 1]
    /\ UNCHANGED <<pc, cache, started, overlapped, pageVars, reqVars, tokVars>>

\* sharp cannot read the source: toFile calls back with err, which the
\* callback does not look at (it tests the error of fs.pathExists), and the
\* file is sent
resizeFails(c) ==
    /\ cover[c].pc = "resize"
    /\ cover' = [cover EXCEPT ![c].pc = "sendFile", ![c].failed = "resize"]
    /\ tally' = [tally EXCEPT ![cover[c].path].failures = @ + 1]
    /\ UNCHANGED <<pc, cache, started, overlapped, pageVars, reqVars, tokVars>>

\* toFile creates (or truncates) the destination file
resizeOpens(c) ==
    /\ cover[c].pc = "resize"
    /\ cover' = [cover EXCEPT ![c].pc = "write"]
    /\ cache' = [cache EXCEPT ![cover[c].path] = "partial"]
    /\ tally' = [tally EXCEPT ![cover[c].path].opens = @ + 1]
    /\ UNCHANGED <<pc, started, overlapped, pageVars, reqVars, tokVars>>

\* toFile has written the image and calls back: the file is sent.  The file
\* is whole unless another resize still writes to it.
resizeWrites(c) ==
    /\ cover[c].pc = "write"
    /\ LET p == cover[c].path
           writing == {d \in Connections \ {c} : cover[d].path = p /\ cover[d].pc = "write"}
       IN /\ cache' = [cache EXCEPT ![p] = IF writing = {} THEN "complete" ELSE "partial"]
          /\ tally' = [tally EXCEPT ![p].writes = @ + 1]
    /\ cover' = [cover EXCEPT ![c].pc = "sendFile"]
    /\ UNCHANGED <<pc, started, overlapped, pageVars, reqVars, tokVars>>

\* response.sendFile(targetFile, options, callback): the file as it is now is
\* the response; if there is none, sendFile hands its error to the callback,
\* which does nothing with it
sendFile(c) ==
    /\ cover[c].pc = "sendFile"
    /\ LET p == cover[c].path
       IN cover' = [cover EXCEPT ![c] =
                      IF cache[p] = "absent"
                      THEN [@ EXCEPT !.pc = "done",
                                     !.failed = IF @ = "" THEN "sendFile" ELSE @]
                      ELSE [@ EXCEPT !.pc = "done",
                                     !.response = Append(@, [kind |-> "file", path |-> p,
                                                             state |-> cache[p]])]]
    /\ UNCHANGED <<pc, cache, tally, started, overlapped, pageVars, reqVars, tokVars>>

\* fileAction: without file data the catch block calls errorHandler(error,
\* 'fileAction'), whose response is then the action name, and writeHead raises
\* again; a failing sendFile reaches errorHandler with the response
fileAction(c) ==
    /\ cover[c].pc = "arrived" /\ cover[c].kind = "file"
    /\ \E found \in BOOLEAN, sent \in BOOLEAN :
          cover' = [cover EXCEPT ![c] =
                      IF ~found
                      THEN [@ EXCEPT !.pc = "done", !.errors = Append(@, "fileAction"),
                                     !.failed = "getFileData"]
                      ELSE IF ~sent THEN errorHandler(@, "response.sendFile", "sendFile")
                      ELSE [@ EXCEPT !.pc = "done",
                                     !.response = Append(@, [kind |-> "file", path |-> NoPath,
                                                             state |-> "complete"])]]
    /\ UNCHANGED <<pc, cache, tally, started, overlapped, pageVars, reqVars, tokVars>>

\* the connection of a finished request takes the next request
Release(c) ==
    /\ cover[c].pc = "done"
    /\ cover' = [cover EXCEPT ![c] = Free]
    /\ UNCHANGED <<pc, cache, tally, started, overlapped, pageVars, reqVars, tokVars>>

NextCover ==
    \E c \in Connections :
        \/ Accept(c)
        \/ coverListAction(c)
        \/ coverBookAction(c)
        \/ pathExistsCallback(c)
        \/ resizeFails(c)
        \/ resizeOpens(c)
        \/ resizeWrites(c)
        \/ sendFile(c)
        \/ fileAction(c)
        \/ Release(c)

SpecCover == InitCover /\ [][NextCover]_vars

(***************************************************************************)
(* C7: the thumbnail cache under requests that do not overlap.             *)
(***************************************************************************)
\* path p as the requests for it leave it, whether or not a step failed
CacheDiscipline(p) ==
    /\ tally[p].resizes <= 1 /\ tally[p].opens <= 1 /\ tally[p].writes <= 1
    /\ tally[p].writes >= 1 => cache[p] = "complete"
    /\ tally[p].opens = 0 => cache[p] = "absent"
    /\ \A c \in Connections :
          cover[c].path = p =>
              /\ (cover[c].nth = 1 /\ cover[c].pc \in {"resize", "write", "sendFile", "done"})
                    => (cover[c].resizes = 1 /\ ~cover[c].exists)
              /\ (cover[c].nth > 1 /\ cover[c].pc \in {"sendFile", "done"})
                    => (cover[c].resizes = 0 /\ cover[c].exists)
              /\ cover[c].pc = "done"
                    => cover[c].response = <<[kind |-> "file", path |-> p, state |-> "complete"]>>

TwoDigits(k) == <<Digits[(k \div 10) + 1], Digits[(k % 10) + 1]>>

\* the two most significant digits of the id written with at least 5 digits
RECURSIVE TopTwoDigits(_)
TopTwoDigits(id) == IF id < 100000 THEN TwoDigits(id \div 1000) ELSE TopTwoDigits(id \div 10)

\* the two leading digits of the last five digits of the id
ShardOfLastFive(id) == TwoDigits((id \div 1000) % 100)

CoverRequests == {c \in Connections : cover[c].kind \in {"coverList", "coverBook"}}

\* the location of every cover request in flight, with the shard given by Shard
Location(Shard(_)) ==
    /\ \A c \in CoverRequests :
          /\ cover[c].path.file = DecimalString(cover[c].id) \o <<".", "j", "p", "g">>
          /\ Len(cover[c].path.dir) = 3
          /\ cover[c].path.dir[1] = (IF cover[c].kind = "coverList" THEN "1" ELSE "0")
          /\ SubSeq(cover[c].path.dir, 2, 3) = Shard(cover[c].id)
          /\ (cover[c].id = 42 /\ cover[c].kind = "coverList")
                => cover[c].path = [dir |-> <<"1", "0", "0">>, file |-> <<"4", "2", ".", "j", "p", "g">>]
    /\ \A c, d \in CoverRequests :
          (cover[c].kind # cover[d].kind \/ cover[c].id # cover[d].id)
              => cover[c].path # cover[d].path

\* C8 as stated: the file is <itemId>.jpg, the directory is the profile's digit
\* (1 list, 0 detail) and the two most significant digits of the id padded to
\* 5 digits; paths of different profiles or different ids never coincide.
C8_AsStated == Location(TopTwoDigits)

\* C8 as amended: the shard is the two leading digits of the last five digits
\* of the padded id, floor(id / 1000) mod 100, which are the two most
\* significant digits for ids below 100000.
C8_Location == Location(ShardOfLastFive)

\* a list cover of book 123456 lies in directory 123 while a detail cover of
\* book 42 lies in directory 000
C8_Witness ==
    \E c, d \in CoverRequests :
        /\ cover[c].kind = "coverList" /\ cover[c].id = 123456
        /\ cover[c].path.dir = <<"1", "2", "3">>
        /\ cover[d].kind = "coverBook" /\ cover[d].id = 42
        /\ cover[d].path.dir = <<"0", "0", "0">>

(***************************************************************************)
(* C10: one response for every request.                                    *)
(***************************************************************************)
\* C10 as stated: every request of the cover and file actions that has run to
\* its end was answered exactly once: with the file, or, when a step raised
\* or reported an error, by one call of errorHandler and a 500 status.
C10_AsStated ==
    \A c \in Connections :
        cover[c].pc = "done" =>
            /\ Len(cover[c].response) = 1
            /\ IF cover[c].failed = ""
               THEN cover[c].response[1].kind = "file" /\ cover[c].errors = <<>>
               ELSE cover[c].response = <<Status500>> /\ Len(cover[c].errors) = 1

\* a list-cover request without a cover record ended with no response
C10_Witness ==
    \E c \in Connections :
        /\ cover[c].pc = "done" /\ cover[c].kind = "coverList"
        /\ cover[c].failed = "getCoverData"
        /\ cover[c].response = <<>> /\ cover[c].errors = <<>>

(***************************************************************************)
(* C11: the offset of the list find and the page of the navigation.        *)
(***************************************************************************)
\* the page the navigation of a list request resolves to, for a count c > 0
ResolvedPage(c) == SpecResolved(ToInt(request.options.page).v, SpecLastPage(c))

\* C11 as stated: in a list request with a count above 0, for every requested
\* page, the offset passed to the find is resolvedPage * pageSize with
\* resolvedPage the clamped page that pageNav reports as currentpage, so
\* 0 <= offset < count and the books returned are those of the current page.
C11_AsStated ==
    (ListHandled /\ CountOutcome.t = "num" /\ CountOutcome.v > 0 /\ Len(Finds) > 0) =>
        LET r == ResolvedPage(CountOutcome.v)
            offset == Finds[1].offset
        IN /\ offset = Num(r * PAGE_LIMIT)
           /\ offset.v >= 0 /\ offset.v < CountOutcome.v
           /\ (Len(response) = 1 /\ response[1].kind = "books") =>
                 /\ response[1].books.first = r * PAGE_LIMIT
                 /\ "currentpage" \in DOMAIN response[1].pageNav
                       => response[1].pageNav.currentpage.value = Num(r)

\* page 10 of 95 books: the find ran at offset 300 where the last page, 3,
\* starts at offset 90
C11_Witness ==
    /\ ListHandled
    /\ CountOutcome = Num(95) /\ request.options.page = Num(10)
    /\ Len(Finds) = 1 /\ Finds[1].offset = Num(300)
    /\ ResolvedPage(95) = 3

(***************************************************************************)
(* C12: concurrent cover requests for one cache path.                      *)
(***************************************************************************)
\* the requests for path p that have not run to their end
Pending(p) ==
    {c \in CoverRequests : cover[c].path = p /\ cover[c].pc # "done"}

\* every file sent for a cover request was whole when it was sent
ServedComplete ==
    \A c \in CoverRequests :
        \A i \in 1..Len(cover[c].response) :
            cover[c].response[i].kind = "file" => cover[c].response[i].state = "complete"

\* once the requests for a path have finished, what was written there is one
\* whole thumbnail
CompleteAtRest ==
    \A p \in CachePaths :
        (Pending(p) = {} /\ tally[p].writes >= 1) => cache[p] = "complete"

\* C12 as stated: under every interleaving of concurrent cover requests for
\* one (itemId, profile), with the write creating the file first and completing
\* it later, a response is only served from a file whose write has completed,
\* and after all requests finish the destination holds one complete thumbnail.
C12_AsStated == ServedComplete /\ CompleteAtRest

\* a request found the file of another request's unfinished write and was
\* answered with it while that write was still going on
C12_Witness ==
    \E c, d \in CoverRequests :
        /\ c # d /\ cover[c].path = cover[d].path
        /\ cover[d].pc = "write"
        /\ cover[c].pc = "done" /\ cover[c].exists /\ cover[c].resizes = 0
        /\ cover[c].response = <<[kind |-> "file", path |-> cover[c].path, state |-> "partial"]>>

====
